---------------------------- MODULE Spec2Model ----------------------------
(***************************************************************************)
(* krakend-etcd: the etcd registry client of the KrakenD gateway.          *)
(*                                                                         *)
(*   src/config.go          Client interface, New and the config parsers   *)
(*   src/client.go          the v2 client  (client.GetEntries/WatchPrefix) *)
(*   src/unnamed/part_000   the v3 client  (clientv3.GetEntries/...)       *)
(*                                                                         *)
(* Three specifications share the variables below:                         *)
(*   Spec / LiveSpec  the watch-and-refresh protocol: one WatchPrefix      *)
(*                    invocation, the store, and a consumer that calls     *)
(*                    GetEntries for every signal;                         *)
(*   SpecGet          GetEntries as a function of the store's response;    *)
(*   SpecNew          New as a function of the configuration.              *)
(***************************************************************************)
EXTENDS Integers, Sequences, FiniteSets, TLC

\* ------------------------------------------------------------------ bounds
\* keys under the watched prefix in the protocol specification
MaxKeys == 2
\* store mutations (transactions) in one behaviour
MaxMut == 2
\* children of the node read by the v2 client / records read by the v3 client
MaxKids == 2
\* children of a child directory in a v2 recursive read
MaxGrand == 1
\* GetEntries calls made on one store response
MaxCalls == 2
\* entries of the configuration's "machines" list
MaxMachines == 2

\* goroutines calling GetEntries at the same time
MaxCallers == 2

\* ------------------------------------------------------------ Go values
\* A Go slice of strings: the nil slice and an empty non-nil slice differ.
NilSlice == [nil |-> TRUE, items |-> <<>>]

Slice(s) == [nil |-> FALSE, items |-> s]

\* the sequences over S of at most n items
SeqsUpTo(S, n) == UNION {[1..k -> S] : k \in 0..n}

\* the error values a GetEntries call can return
ErrNone == "nil"

ErrNilClient == "nil etcd client"

ErrStore == "store error"

\* the result of one GetEntries call: the (entries, error) pair, whether the
\* call reached the store, and whether it ended in a run-time panic
Returned(entries, err, io) ==
    [entries |-> entries, err |-> err, io |-> io, panic |-> FALSE]

\* a method call through a nil interface value: a nil pointer dereference
Panicked == [entries |-> NilSlice, err |-> ErrNone, io |-> FALSE, panic |-> TRUE]

\* ------------------------------------------------------ v3 GetEntries
\* faulty variant: the entries filled from the last record to the first
V3Entries_Reversed(resp) ==
    [i \in 1..resp.Count |->
        IF resp.Count + 1 - i <= Len(resp.Kvs)
        THEN resp.Kvs[resp.Count + 1 - i].Value ELSE ""]

\* entries := make([]string, resp.Count); entries[i] = string(ev.Value[:])
\* (string(ev.Value[:]) copies the value's bytes: contents are unchanged; a
\* slot no record fills keeps make's zero value, the empty string)
V3Entries(resp) ==
    [i \in 1..resp.Count |->
        IF i <= Len(resp.Kvs) THEN resp.Kvs[i].Value ELSE ""]

\* faulty variant: the special case without the count check
V3NoEntries_OnlyEmpty(resp) ==
    Len(resp.Kvs) = 0

\* the special case of clientv3.GetEntries: no record, or a count that
\* disagrees with the records returned
V3NoEntries(resp) ==
    Len(resp.Kvs) = 0 \/ resp.Count # Len(resp.Kvs)

\* clientv3.GetEntries on a client with connection handle h, when the store
\* answers the prefix read with resp = [err, Kvs, Count]; make with a
\* negative length, or a record beyond the slice's length, is a panic
GetEntriesV3(h, resp) ==
    IF h = "nil" THEN Returned(NilSlice, ErrNilClient, FALSE)
    ELSE IF resp.err THEN Returned(NilSlice, ErrStore, TRUE)
    ELSE IF V3NoEntries(resp) THEN Returned(NilSlice, ErrNone, TRUE)
    ELSE IF resp.Count < 0 \/ Len(resp.Kvs) > resp.Count
         THEN Panicked
    ELSE Returned(Slice(V3Entries(resp)), ErrNone, TRUE)

\* ------------------------------------------------------ v2 GetEntries
\* entries[i] = node.Value for the children of the node read
V2Entries(node) ==
    [i \in 1..Len(node.Nodes) |-> node.Nodes[i].Value]

\* faulty variant: the special case without the check of the value
V2SingleValue_AnyLeaf(node) ==
    Len(node.Nodes) = 0

\* the special case of client.GetEntries: a node without children that
\* carries a value of its own
V2SingleValue(node) ==
    Len(node.Nodes) = 0 /\ node.Value # ""

\* client.GetEntries on a client whose keysAPI is h, when the store answers
\* the recursive read with resp = [err, Node]; there is no nil check, so a
\* nil keysAPI makes c.keysAPI.Get a call through a nil interface
GetEntriesV2(h, resp) ==
    IF h = "nil" THEN Panicked
    ELSE IF resp.err THEN Returned(NilSlice, ErrStore, TRUE)
    ELSE IF V2SingleValue(resp.Node)
         THEN Returned(Slice(<<resp.Node.Value>>), ErrNone, TRUE)
    ELSE Returned(Slice(V2Entries(resp.Node)), ErrNone, TRUE)

\* Client.GetEntries: the interface both generations implement
GetEntries(g, h, resp) ==
    IF g = "v3" THEN GetEntriesV3(h, resp) ELSE GetEntriesV2(h, resp)

\* ------------------------------------------------------------- the store
\* the keys under the watched prefix
Keys == 1..MaxKeys

Callers == 1..MaxCallers

\* the value stored under key k
ValueNames == <<"x", "y", "z", "w", "u", "t">>

ValueOf(k) == ValueNames[k]

\* the keys of s in the store's (ascending key) order
RECURSIVE KeySeq(_)
KeySeq(s) ==
    IF s = {} THEN <<>>
    ELSE LET k == CHOOSE x \in s : \A y \in s : x <= y
         IN <<k>> \o KeySeq(s \ {k})

FileNode(v) == [Dir |-> FALSE, Value |-> v, Nodes |-> <<>>]

DirNode(kids) == [Dir |-> TRUE, Value |-> "", Nodes |-> kids]

\* the store's answer to the v3 prefix read when the prefix holds keys s
StoreRespV3(s) ==
    [err |-> FALSE,
     Kvs |-> [i \in 1..Cardinality(s) |->
                 [Key |-> KeySeq(s)[i], Value |-> ValueOf(KeySeq(s)[i])]],
     Count |-> Cardinality(s)]

\* the store's answer to the v2 recursive read when the prefix directory
\* holds keys s
StoreRespV2(s) ==
    [err |-> FALSE,
     Node |-> DirNode([i \in 1..Cardinality(s) |->
                          FileNode(ValueOf(KeySeq(s)[i]))])]

StoreResp(g, s) == IF g = "v3" THEN StoreRespV3(s) ELSE StoreRespV2(s)

\* ------------------------------------------------- New and its parsers
\* const defaultTTL = 3 * time.Second (durations are counted in seconds)
defaultTTL == 3

ErrNoConfig == "unable to create the etcd client: no config"

ErrBadConfig == "unable to create the etcd client with the received config"

ErrNoMachines == "unable to create the etcd client without a set of servers"

ErrKeyPair == "tls: failed to load the key pair"

ErrNoEndpoints == "etcd client: no endpoints available"

ErrDial == "etcd client: dial timed out"

ErrDuration == "time: invalid duration"

\* a value found in the untyped configuration: a missing key, a string, or
\* a value of another type
Absent == [kind |-> "absent", s |-> ""]

Str(x) == [kind |-> "string", s |-> x]

NonStr == [kind |-> "other", s |-> ""]

\* ClientOptions{}: the zero value
ZeroOptions ==
    [Cert |-> "", Key |-> "", CACert |-> "",
     DialTimeout |-> 0, DialKeepAlive |-> 0, HeaderTimeoutPerRequest |-> 0]

\* time.ParseDuration on the strings the configurations below use
ParseDuration(str) ==
    CASE str = "0s" -> [d |-> 0, err |-> ErrNone]
      [] str = "2s" -> [d |-> 2, err |-> ErrNone]
      [] str = "5s" -> [d |-> 5, err |-> ErrNone]
      [] OTHER -> [d |-> 0, err |-> ErrDuration]

\* parseDuration: a non-string is an error, a string is parsed
parseDuration(v) ==
    IF v.kind # "string" THEN [d |-> 0, err |-> ErrDuration]
    ELSE ParseDuration(v.s)

\* o.(string) without the ok form panics on a value of another type
AssertsString(v) == v.kind = "absent" \/ v.kind = "string"

\* an optional string field: kept when present
StringField(v, zero) == IF v.kind = "string" THEN v.s ELSE zero

\* an optional duration field: kept when present and parsable
DurationField(v) ==
    IF v.kind # "absent" /\ parseDuration(v).err = ErrNone
    THEN parseDuration(v).d ELSE 0

\* parseOptions(cfg): the options, or a panic on a wrongly typed "options",
\* "cert", "key" or "cacert"
parseOptions(block) ==
    LET o == block.options IN
    IF o.kind = "absent" THEN [panic |-> FALSE, options |-> ZeroOptions]
    ELSE IF o.kind # "map" THEN [panic |-> TRUE, options |-> ZeroOptions]
    ELSE IF ~(AssertsString(o.cert) /\ AssertsString(o.key)
                /\ AssertsString(o.cacert))
         THEN [panic |-> TRUE, options |-> ZeroOptions]
    ELSE [panic |-> FALSE,
          options |->
            [Cert |-> StringField(o.cert, ""),
             Key |-> StringField(o.key, ""),
             CACert |-> StringField(o.cacert, ""),
             DialTimeout |-> DurationField(o.dial_timeout),
             DialKeepAlive |-> DurationField(o.dial_keepalive),
             HeaderTimeoutPerRequest |-> DurationField(o.header_timeout)]]

\* parseVersion(cfg): "v2" when absent or neither "v2" nor "v3"; the
\* unchecked value.(string) panics on a non-string
parseVersion(block) ==
    LET v == block.client_version IN
    IF v.kind = "absent" THEN [panic |-> FALSE, version |-> "v2"]
    ELSE IF v.kind # "string" THEN [panic |-> TRUE, version |-> "v2"]
    ELSE [panic |-> FALSE,
          version |-> IF v.s # "v2" /\ v.s # "v3" THEN "v2" ELSE v.s]

\* the strings of a list, in order, the other values skipped
RECURSIVE StringsOf(_)
StringsOf(items) ==
    IF items = <<>> THEN <<>>
    ELSE (IF Head(items).kind = "string" THEN <<Head(items).s>> ELSE <<>>)
             \o StringsOf(Tail(items))

\* faulty variant: one value that is not a string spoils the whole list
parseMachines_AllOrNothing(block) ==
    LET m == block.machines IN
    IF m.kind # "seq" THEN [machines |-> <<>>, err |-> ErrNoMachines]
    ELSE IF Len(StringsOf(m.items)) < Len(m.items) \/ Len(m.items) = 0
         THEN [machines |-> <<>>, err |-> ErrNoMachines]
    ELSE [machines |-> StringsOf(m.items), err |-> ErrNone]

\* parseMachines(cfg)
parseMachines(block) ==
    LET m == block.machines IN
    IF m.kind # "seq" THEN [machines |-> <<>>, err |-> ErrNoMachines]
    ELSE IF Len(StringsOf(m.items)) = 0
         THEN [machines |-> <<>>, err |-> ErrNoMachines]
    ELSE [machines |-> StringsOf(m.items), err |-> ErrNone]

\* faulty variant: the keep-alive default is decided by the dial timeout
WithDefaults_SharedTest(options) ==
    [options EXCEPT
        !.DialTimeout = IF @ = 0 THEN defaultTTL ELSE @,
        !.DialKeepAlive = IF options.DialTimeout = 0 THEN defaultTTL ELSE @,
        !.HeaderTimeoutPerRequest = IF @ = 0 THEN defaultTTL ELSE @]

\* the three defaults both constructors apply
WithDefaults(options) ==
    [options EXCEPT
        !.DialTimeout = IF @ = 0 THEN defaultTTL ELSE @,
        !.DialKeepAlive = IF @ = 0 THEN defaultTTL ELSE @,
        !.HeaderTimeoutPerRequest = IF @ = 0 THEN defaultTTL ELSE @]

\* the files of the host: tls.LoadX509KeyPair and ioutil.ReadFile succeed
\* on these and fail on every other path
KeyPairLoads(cert, key) == cert = "good.crt" /\ key = "good.key"

FileReads(path) == path = "ca.pem"

\* what a constructor, or New, returns: the (Client, error) pair; whether
\* the store client's constructor was called and whether the network was
\* used; the options in force and whether a custom root set was installed
Built(client, err, made, dialed, options, machines, rootCAs) ==
    [called |-> TRUE, panic |-> FALSE, client |-> client, err |-> err,
     made |-> made, dialed |-> dialed, options |-> options,
     machines |-> machines, rootCAs |-> rootCAs]

Failed(err) == Built("nil", err, FALSE, FALSE, ZeroOptions, <<>>, FALSE)

NewPanicked ==
    [called |-> TRUE, panic |-> TRUE, client |-> "nil", err |-> ErrNone,
     made |-> FALSE, dialed |-> FALSE, options |-> ZeroOptions,
     machines |-> <<>>, rootCAs |-> FALSE]

NotCalled ==
    [called |-> FALSE, panic |-> FALSE, client |-> "nil", err |-> ErrNone,
     made |-> FALSE, dialed |-> FALSE, options |-> ZeroOptions,
     machines |-> <<>>, rootCAs |-> FALSE]

\* faulty variant: an unreadable CA bundle fails the construction
NewClient_CARequired(machines, options, reachable) ==
    LET o == WithDefaults(options)
        tls == o.Cert # "" /\ o.Key # ""
        ca == tls /\ FileReads(o.CACert)
    IN IF tls /\ (~KeyPairLoads(o.Cert, o.Key) \/ ~ca)
       THEN Built("nil", ErrKeyPair, FALSE, FALSE, o, machines, FALSE)
       ELSE IF Len(machines) = 0
       THEN Built("nil", ErrNoEndpoints, TRUE, FALSE, o, machines, ca)
       ELSE Built("v2", ErrNone, TRUE, FALSE, o, machines, ca)

\* NewClient: the v2 constructor.  etcd.New fails on an empty endpoint list
\* and opens no connection.
NewClient(machines, options, reachable) ==
    LET o == WithDefaults(options)
        tls == o.Cert # "" /\ o.Key # ""
        ca == tls /\ FileReads(o.CACert)
    IN IF tls /\ ~KeyPairLoads(o.Cert, o.Key)
       THEN Built("nil", ErrKeyPair, FALSE, FALSE, o, machines, FALSE)
       ELSE IF Len(machines) = 0
       THEN Built("nil", ErrNoEndpoints, TRUE, FALSE, o, machines, ca)
       ELSE Built("v2", ErrNone, TRUE, FALSE, o, machines, ca)

\* NewClientV3: the v3 constructor.  etcdv3.New fails on an empty endpoint
\* list and dials the store within DialTimeout.
NewClientV3(machines, options, reachable) ==
    LET o == WithDefaults(options)
        tls == o.Cert # "" /\ o.Key # ""
        ca == tls /\ FileReads(o.CACert)
    IN IF tls /\ ~KeyPairLoads(o.Cert, o.Key)
       THEN Built("nil", ErrKeyPair, FALSE, FALSE, o, machines, FALSE)
       ELSE IF Len(machines) = 0
       THEN Built("nil", ErrNoEndpoints, TRUE, FALSE, o, machines, ca)
       ELSE IF ~reachable
       THEN Built("nil", ErrDial, TRUE, TRUE, o, machines, ca)
       ELSE Built("v3", ErrNone, TRUE, TRUE, o, machines, ca)

\* faulty variant: the options are parsed and the key pair is loaded before the
\* address list is looked at
NewFromValue_CredentialsFirst(c) ==
    IF c.ns # "map" THEN Failed(ErrBadConfig)
    ELSE IF parseVersion(c.block).panic THEN NewPanicked
    ELSE IF parseOptions(c.block).panic THEN NewPanicked
    ELSE IF NewClient(<<"http://a:2379">>, parseOptions(c.block).options,
                      c.reachable).err = ErrKeyPair
         THEN Failed(ErrKeyPair)
    ELSE IF parseMachines(c.block).err # ErrNone
         THEN Failed(parseMachines(c.block).err)
    ELSE IF parseVersion(c.block).version = "v3"
         THEN NewClientV3(parseMachines(c.block).machines,
                          parseOptions(c.block).options, c.reachable)
    ELSE NewClient(parseMachines(c.block).machines,
                   parseOptions(c.block).options, c.reachable)

\* New(ctx, e) from the type assertion on the value found under the
\* namespace key
NewFromValue(c) ==
    IF c.ns # "map" THEN Failed(ErrBadConfig)
    ELSE IF parseMachines(c.block).err # ErrNone
         THEN Failed(parseMachines(c.block).err)
    ELSE IF parseVersion(c.block).panic THEN NewPanicked
    ELSE IF parseOptions(c.block).panic THEN NewPanicked
    ELSE IF parseVersion(c.block).version = "v3"
         THEN NewClientV3(parseMachines(c.block).machines,
                          parseOptions(c.block).options, c.reachable)
    ELSE NewClient(parseMachines(c.block).machines,
                   parseOptions(c.block).options, c.reachable)

\* faulty variant: the lookup's ok is not checked, and the nil value goes on to the
\* type assertion
New_NoPresenceCheck(c) ==
    NewFromValue(c)

\* New(ctx, e)
New(c) ==
    IF c.ns = "absent" THEN Failed(ErrNoConfig)
    ELSE NewFromValue(c)

\* the configurations: the value under the namespace key, and whether the
\* store answers
MachineValues == {Str("http://a:2379"), Str("http://b:2379"), NonStr}

MachinesFields ==
    {[kind |-> "absent", items |-> <<>>], [kind |-> "other", items |-> <<>>]}
        \cup {[kind |-> "seq", items |-> m] : m \in SeqsUpTo(MachineValues, MaxMachines)}

VersionFields == {Absent, Str("v2"), Str("v3"), Str("v1"), NonStr}

DurationFields == {Absent, Str("0s"), Str("2s"), Str("bad"), NonStr}

NoOptions ==
    [kind |-> "absent", cert |-> Absent, key |-> Absent, cacert |-> Absent,
     dial_timeout |-> Absent, dial_keepalive |-> Absent,
     header_timeout |-> Absent]

OptionsFields ==
    {NoOptions, [NoOptions EXCEPT !.kind = "other"]}
    \cup
    {[NoOptions EXCEPT !.kind = "map", !.cert = a, !.key = b, !.cacert = c] :
        a \in {Absent, Str(""), Str("good.crt"), Str("blank.crt"), NonStr},
        b \in {Absent, Str(""), Str("good.key"), Str("blank.key"), NonStr},
        c \in {Absent, Str("ca.pem"), Str("blank.CACert"), NonStr}}
    \cup
    {[NoOptions EXCEPT !.kind = "map", !.dial_timeout = a,
                       !.dial_keepalive = b, !.header_timeout = c] :
        a \in DurationFields, b \in DurationFields, c \in DurationFields}

NoBlock ==
    [machines |-> [kind |-> "absent", items |-> <<>>],
     client_version |-> Absent, options |-> NoOptions]

Blocks ==
    {[machines |-> m, client_version |-> v, options |-> o] :
        m \in MachinesFields, v \in VersionFields, o \in OptionsFields}

\* others: whether the extra configuration holds other namespaces
Configs ==
    {[ns |-> "map", block |-> b, others |-> FALSE, reachable |-> r] :
        b \in Blocks, r \in BOOLEAN}
    \cup
    {[ns |-> n, block |-> NoBlock, others |-> x, reachable |-> r] :
        n \in {"absent", "other"}, x \in BOOLEAN, r \in BOOLEAN}

NoConfig == [ns |-> "absent", block |-> NoBlock, others |-> FALSE, reachable |-> FALSE]

\* --------------------------------------------------------------- state
VARIABLES
    \* the client: protocol generation, connection handle (client.keysAPI,
    \* clientv3.client), and whether its context has been cancelled
    gen, handle, ctxCancelled,
    \* the store: the keys present under the prefix and the modification
    \* index (v2) / revision (v3)
    store, index,
    \* the WatchPrefix invocation: where it is, what the signal it is sending
    \* was derived from, and whether it has built its watch
    wpc, cur, established,
    \* the store's index (v2) / revision (v3) when the watch was built
    estIndex,
    \* the v2 watcher: hw.nextWait.WaitIndex, and the index from which the
    \* long poll in progress reports events
    waitIndex, regIndex,
    \* the v3 watch channel: the responses not yet taken, and whether it closed
    wch, wchClosed,
    \* whether the watch stream has failed
    streamErr,
    \* the responses taken from the watch stream, and the signals handed over
    taken, log,
    \* the consumer: where it is, whether it still reads the channel, the
    \* result of its last GetEntries call
    cpc, receiverActive, view,
    \* SpecGet: one GetEntries call and its result
    req, res, calls,
    \* SpecNew: one configuration and the result of New
    cfg, newRes,
    \* SpecCall: the GetEntries calls in flight, one per caller
    call

protoVars ==
    <<gen, handle, ctxCancelled, store, index, wpc, cur, established,
      estIndex, waitIndex, regIndex, wch, wchClosed, streamErr, taken, log, cpc,
      receiverActive, view>>

getVars == <<req, res, calls>>

newVars == <<cfg, newRes>>

callVars == <<call>>

vars == <<protoVars, getVars, newVars, callVars>>

\* a panic in any goroutine ends the process
Crashed == wpc = "panic" \/ cpc = "panic"

\* a response of the watch stream: a batch of events (v2: one event), or the
\* error response a failing v3 stream posts before its channel closes
Batch(rev, n) == [kind |-> "batch", rev |-> rev, events |-> n]

ErrResponse == [kind |-> "err", rev |-> 0, events |-> 0]

Prefixes(q) == {SubSeq(q, 1, n) : n \in 0..Len(q)}

\* the receiver is at its receive from the signal channel
ReceiverReady == cpc = "recv" /\ receiverActive

\* ------------------------------------------------- the parts not in use
NoCall == [gen |-> "v2", handle |-> "nil", resp |-> StoreRespV2({})]

GetIdle == req = NoCall /\ res = Panicked /\ calls = 0

NewIdle == cfg = NoConfig /\ newRes = NotCalled

\* a caller outside GetEntries
IdleCall == [pc |-> "idle", ctx |-> "none", timer |-> "off", res |-> "none"]

CallIdle == call = [i \in Callers |-> IdleCall]

ProtoIdle ==
    /\ gen = "v2" /\ handle = "nil" /\ ctxCancelled = FALSE
    /\ store = {} /\ index = 0
    /\ wpc = "off" /\ cur = "none" /\ established = FALSE /\ estIndex = 0
    /\ waitIndex = 0 /\ regIndex = 0
    /\ wch = <<>> /\ wchClosed = FALSE /\ streamErr = FALSE
    /\ taken = <<>> /\ log = <<>>
    /\ cpc = "off" /\ receiverActive = FALSE /\ view = Panicked

\* ------------------------------------------------------------ protocol
\* A client of either generation, initialised or not (newFakeClientV3 builds
\* one with a nil handle), a store that is empty or already holds a key,
\* WatchPrefix not yet called, and a consumer about to seed its view.
Init ==
    /\ gen \in {"v2", "v3"}
    /\ handle \in {"live", "nil"}
    /\ ctxCancelled = FALSE
    /\ store \in {{}, {1}}
    /\ index = 0
    /\ wpc = "idle" /\ cur = "none" /\ established = FALSE /\ estIndex = 0
    /\ waitIndex = 0 /\ regIndex = 0
    /\ wch = <<>> /\ wchClosed = FALSE /\ streamErr = FALSE
    /\ taken = <<>> /\ log = <<>>
    /\ cpc = "seed" /\ receiverActive = TRUE
    /\ view = Returned(NilSlice, ErrNone, FALSE)
    /\ GetIdle
    /\ NewIdle
    /\ CallIdle

\* client.WatchPrefix up to its first send (the consumer starts it once it
\* has seeded its view): c.keysAPI.Watcher(prefix,
\* {AfterIndex: 0, Recursive: true}) builds the watcher without any request
\* to the store (WaitIndex 0: "from whatever the index is when asked");
\* through a nil keysAPI the call panics
V2WatchPrefix ==
    /\ gen = "v2" /\ wpc = "idle" /\ cpc # "seed" /\ ~Crashed
    /\ IF handle = "nil"
       THEN /\ wpc' = "panic" /\ cur' = "none"
            /\ UNCHANGED <<waitIndex, established, estIndex>>
       ELSE /\ wpc' = "sentinel" /\ cur' = "sentinel"
            /\ waitIndex' = 0 /\ established' = TRUE /\ estIndex' = index
    /\ UNCHANGED <<gen, handle, ctxCancelled, store, index, regIndex, wch,
                   wchClosed, streamErr, taken, log, cpc, receiverActive, view>>
    /\ UNCHANGED <<getVars, newVars, callVars>>

\* faulty variant: the watch is built and the loop entered without the sentinel
V3WatchPrefix_NoSentinel ==
    /\ gen = "v3" /\ wpc = "idle" /\ cpc # "seed" /\ ~Crashed
    /\ IF handle = "nil"
       THEN wpc' = "done" /\ UNCHANGED <<established, estIndex>>
       ELSE wpc' = "loop" /\ established' = TRUE /\ estIndex' = index
    /\ cur' = "none"
    /\ wch' = <<>> /\ wchClosed' = FALSE
    /\ UNCHANGED <<gen, handle, ctxCancelled, store, index, waitIndex, regIndex,
                   streamErr, taken, log, cpc, receiverActive, view>>
    /\ UNCHANGED <<getVars, newVars, callVars>>

\* clientv3.WatchPrefix up to its first send: return at once on a nil
\* client; else c.client.Watch(c.ctx, prefix, WithPrefix()), which returns
\* the channel once the store has registered the watch at its current
\* revision
V3WatchPrefix ==
    /\ gen = "v3" /\ wpc = "idle" /\ cpc # "seed" /\ ~Crashed
    /\ IF handle = "nil"
       THEN wpc' = "done" /\ cur' = "none" /\ UNCHANGED <<established, estIndex>>
       ELSE /\ wpc' = "sentinel" /\ cur' = "sentinel"
            /\ established' = TRUE /\ estIndex' = index
    /\ wch' = <<>> /\ wchClosed' = FALSE
    /\ UNCHANGED <<gen, handle, ctxCancelled, store, index, waitIndex, regIndex,
                   streamErr, taken, log, cpc, receiverActive, view>>
    /\ UNCHANGED <<getVars, newVars, callVars>>

\* ch <- struct{}{} // make sure caller invokes GetEntries
\* an unbuffered send: it completes when the receiver takes the value
SendSentinel ==
    /\ wpc = "sentinel" /\ ~Crashed
    /\ ReceiverReady
    /\ log' = Append(log, cur)
    /\ wpc' = "loop" /\ cur' = "none"
    /\ cpc' = "list"
    /\ UNCHANGED <<estIndex, established, gen, handle, ctxCancelled, store, index, waitIndex, regIndex,
                   wch, wchClosed, streamErr, taken, receiverActive, view>>
    /\ UNCHANGED <<getVars, newVars, callVars>>

\* ch <- struct{}{} inside the loop: the same unbuffered send
SendSignal ==
    /\ wpc = "signal" /\ ~Crashed
    /\ ReceiverReady
    /\ log' = Append(log, cur)
    /\ wpc' = "loop" /\ cur' = "none"
    /\ cpc' = "list"
    /\ UNCHANGED <<estIndex, established, gen, handle, ctxCancelled, store, index, waitIndex, regIndex,
                   wch, wchClosed, streamErr, taken, receiverActive, view>>
    /\ UNCHANGED <<getVars, newVars, callVars>>

\* watch.Next(c.ctx), the request: an error at once when the context is
\* cancelled or the store cannot be reached (WatchPrefix returns); else the
\* store registers the long poll, from WaitIndex when set and from the next
\* modification when WaitIndex is 0
V2NextCall ==
    /\ gen = "v2" /\ wpc = "loop" /\ ~Crashed
    /\ IF ctxCancelled \/ streamErr
       THEN wpc' = "done" /\ UNCHANGED regIndex
       ELSE /\ wpc' = "waiting"
            /\ regIndex' = IF waitIndex = 0 THEN index + 1 ELSE waitIndex
    /\ UNCHANGED <<estIndex, established, gen, handle, ctxCancelled, store, index, cur, waitIndex, wch,
                   wchClosed, streamErr, taken, log, cpc, receiverActive, view>>
    /\ UNCHANGED <<getVars, newVars, callVars>>

\* watch.Next(c.ctx), the answer: the first event at or after the registered
\* index; hw.nextWait.WaitIndex = resp.Node.ModifiedIndex + 1
V2NextEvent ==
    /\ gen = "v2" /\ wpc = "waiting" /\ ~Crashed
    /\ index >= regIndex
    /\ taken' = Append(taken, Batch(regIndex, 1))
    /\ waitIndex' = regIndex + 1
    /\ wpc' = "signal" /\ cur' = "batch"
    /\ UNCHANGED <<estIndex, established, gen, handle, ctxCancelled, store, index, regIndex, wch,
                   wchClosed, streamErr, log, cpc, receiverActive, view>>
    /\ UNCHANGED <<getVars, newVars, callVars>>

\* faulty variant: the wait does not see the context's cancellation
V2NextError_IgnoresCancel ==
    /\ gen = "v2" /\ wpc = "waiting" /\ ~Crashed
    /\ streamErr
    /\ wpc' = "done"
    /\ UNCHANGED <<estIndex, established, gen, handle, ctxCancelled, store, index, cur,
                   waitIndex, regIndex, wch, wchClosed, streamErr, taken, log,
                   cpc, receiverActive, view>>
    /\ UNCHANGED <<getVars, newVars, callVars>>

\* watch.Next(c.ctx) returns an error while waiting (the context is
\* cancelled, the connection is lost): if ...; err != nil { return }
V2NextError ==
    /\ gen = "v2" /\ wpc = "waiting" /\ ~Crashed
    /\ ctxCancelled \/ streamErr
    /\ wpc' = "done"
    /\ UNCHANGED <<estIndex, established, gen, handle, ctxCancelled, store, index, cur, waitIndex,
                   regIndex, wch, wchClosed, streamErr, taken, log, cpc,
                   receiverActive, view>>
    /\ UNCHANGED <<getVars, newVars, callVars>>

\* for _ = range watch: the next response of the channel, whatever it holds
V3Receive ==
    /\ gen = "v3" /\ wpc = "loop" /\ ~Crashed
    /\ wch # <<>>
    /\ taken' = Append(taken, Head(wch))
    /\ wch' = Tail(wch)
    /\ wpc' = "signal" /\ cur' = Head(wch).kind
    /\ UNCHANGED <<estIndex, established, gen, handle, ctxCancelled, store, index, waitIndex, regIndex,
                   wchClosed, streamErr, log, cpc, receiverActive, view>>
    /\ UNCHANGED <<getVars, newVars, callVars>>

\* for _ = range watch ends when the channel is closed and drained
V3RangeEnd ==
    /\ gen = "v3" /\ wpc = "loop" /\ ~Crashed
    /\ wch = <<>> /\ wchClosed
    /\ wpc' = "done"
    /\ UNCHANGED <<estIndex, established, gen, handle, ctxCancelled, store, index, cur, waitIndex,
                   regIndex, wch, wchClosed, streamErr, taken, log, cpc,
                   receiverActive, view>>
    /\ UNCHANGED <<getVars, newVars, callVars>>

\* the v3 watch is registered with the store and its channel is open
V3Watching ==
    gen = "v3" /\ established /\ wpc # "done" /\ ~wchClosed

\* The store changes: one transaction sets or deletes the keys of S (v2: one
\* key per modification).  A registered v3 watch gets one response holding
\* one event per key; a v2 long poll finds the event by its index.
Mutate(S) ==
    /\ index < MaxMut
    /\ S # {} /\ (gen = "v2" => Cardinality(S) = 1)
    /\ store' = (store \ S) \cup (S \ store)
    /\ index' = index + 1
    /\ wch' = IF V3Watching
              THEN Append(wch, Batch(index + 1, Cardinality(S)))
              ELSE wch
    /\ UNCHANGED <<estIndex, established, gen, handle, ctxCancelled, wpc, cur, waitIndex, regIndex,
                   wchClosed, streamErr, taken, log, cpc, receiverActive, view>>
    /\ UNCHANGED <<getVars, newVars, callVars>>

\* the owner of the context given to the constructor cancels it
Cancel ==
    /\ ~ctxCancelled
    /\ ctxCancelled' = TRUE
    /\ UNCHANGED <<estIndex, established, gen, handle, store, index, wpc, cur, waitIndex, regIndex,
                   wch, wchClosed, streamErr, taken, log, cpc, receiverActive,
                   view>>
    /\ UNCHANGED <<getVars, newVars, callVars>>

\* the etcd v3 client closes the watch channel once it sees the context
\* cancelled; of the responses it had buffered, any prefix may still have
\* reached the channel
V3StreamClose ==
    /\ V3Watching /\ ctxCancelled
    /\ wchClosed' = TRUE
    /\ wch' \in Prefixes(wch)
    /\ UNCHANGED <<estIndex, established, gen, handle, ctxCancelled, store, index, wpc, cur, waitIndex,
                   regIndex, streamErr, taken, log, cpc, receiverActive, view>>
    /\ UNCHANGED <<getVars, newVars, callVars>>

\* the v3 watch stream fails (the watch is cancelled by the store, the
\* stream halts): the etcd client posts an error response, which may or may
\* not reach the channel, and closes the channel
V3StreamFail ==
    /\ V3Watching /\ ~ctxCancelled /\ ~streamErr
    /\ streamErr' = TRUE
    /\ wchClosed' = TRUE
    /\ \E q \in Prefixes(wch) : wch' \in {q, Append(q, ErrResponse)}
    /\ UNCHANGED <<estIndex, established, gen, handle, ctxCancelled, store, index, wpc, cur, waitIndex,
                   regIndex, taken, log, cpc, receiverActive, view>>
    /\ UNCHANGED <<getVars, newVars, callVars>>

\* the connection of the v2 client to the store is lost: requests fail
V2StreamFail ==
    /\ gen = "v2" /\ handle = "live" /\ ~streamErr
    /\ wpc \in {"sentinel", "loop", "waiting", "signal"}
    /\ streamErr' = TRUE
    /\ UNCHANGED <<estIndex, established, gen, handle, ctxCancelled, store, index, wpc, cur, waitIndex,
                   regIndex, wch, wchClosed, taken, log, cpc, receiverActive,
                   view>>
    /\ UNCHANGED <<getVars, newVars, callVars>>

\* The consumer, having received a signal, calls GetEntries once; the read
\* runs under the client's context, so it fails once that is cancelled.
ConsumerList ==
    /\ cpc = "list" /\ ~Crashed
    /\ LET r == StoreResp(gen, store)
           resp == IF ctxCancelled THEN [r EXCEPT !.err = TRUE] ELSE r
           got == GetEntries(gen, handle, resp)
       IN /\ view' = got
          /\ cpc' = IF got.panic THEN "panic" ELSE "recv"
    /\ UNCHANGED <<estIndex, established, gen, handle, ctxCancelled, store, index, wpc, cur, waitIndex,
                   regIndex, wch, wchClosed, streamErr, taken, log,
                   receiverActive>>
    /\ UNCHANGED <<getVars, newVars, callVars>>

\* The consumer seeds its view with one GetEntries call before it starts to
\* read the signal channel.
ConsumerSeed ==
    /\ cpc = "seed" /\ ~Crashed
    /\ LET r == StoreResp(gen, store)
           resp == IF ctxCancelled THEN [r EXCEPT !.err = TRUE] ELSE r
           got == GetEntries(gen, handle, resp)
       IN /\ view' = got
          /\ cpc' = IF got.panic THEN "panic" ELSE "recv"
    /\ UNCHANGED <<estIndex, established, gen, handle, ctxCancelled, store, index, wpc,
                   cur, waitIndex, regIndex, wch, wchClosed, streamErr, taken,
                   log, receiverActive>>
    /\ UNCHANGED <<getVars, newVars, callVars>>

\* the consumer stops reading the channel
ReceiverStop ==
    /\ receiverActive
    /\ receiverActive' = FALSE
    /\ UNCHANGED <<estIndex, established, gen, handle, ctxCancelled, store, index, wpc, cur, waitIndex,
                   regIndex, wch, wchClosed, streamErr, taken, log, cpc, view>>
    /\ UNCHANGED <<getVars, newVars, callVars>>

Next ==
    \/ V2WatchPrefix
    \/ V3WatchPrefix
    \/ SendSentinel
    \/ SendSignal
    \/ V2NextCall
    \/ V2NextEvent
    \/ V2NextError
    \/ V3Receive
    \/ V3RangeEnd
    \/ \E S \in SUBSET Keys : Mutate(S)
    \/ Cancel
    \/ V3StreamClose
    \/ V3StreamFail
    \/ V2StreamFail
    \/ ConsumerSeed
    \/ ConsumerList
    \/ ReceiverStop

Spec == Init /\ [][Next]_vars

\* ------------------------------------------------- GetEntries alone
\* the value contents a key can hold
Values == {"", "x", "y"}

\* what a v2 recursive read can return for the prefix: a file, or a
\* directory of files and of directories of files, in the store's order
V2Files == {FileNode(v) : v \in Values}

V2Level1 == V2Files \cup {DirNode(k) : k \in SeqsUpTo(V2Files, MaxGrand)}

V2Roots == V2Files \cup {DirNode(k) : k \in SeqsUpTo(V2Level1, MaxKids)}

V2Responses ==
    {[err |-> FALSE, Node |-> n] : n \in V2Roots}
        \cup {[err |-> TRUE, Node |-> DirNode(<<>>)]}

\* what a v3 prefix read can return: records in ascending key order and the
\* count of keys in the range, never less than the records returned
V3Records(K) ==
    {[i \in 1..Cardinality(K) |-> [Key |-> KeySeq(K)[i], Value |-> f[KeySeq(K)[i]]]] :
        f \in [K -> Values]}

V3Responses ==
    {[err |-> FALSE, Kvs |-> kvs, Count |-> c] :
        kvs \in UNION {V3Records(K) : K \in SUBSET (1..MaxKids)},
        c \in 0..(MaxKids + 1)}
        \cup {[err |-> TRUE, Kvs |-> <<>>, Count |-> 0]}

V3Plausible(resp) == resp.Count >= Len(resp.Kvs)

GetRequests ==
    {[gen |-> "v2", handle |-> h, resp |-> r] :
        h \in {"live", "nil"}, r \in V2Responses}
    \cup
    {[gen |-> "v3", handle |-> h, resp |-> r] :
        h \in {"live", "nil"}, r \in {x \in V3Responses : V3Plausible(x)}}

InitGet ==
    /\ ProtoIdle
    /\ NewIdle
    /\ CallIdle
    /\ req \in GetRequests
    /\ res = Panicked
    /\ calls = 0

\* client.GetEntries(key) against a store that answers req.resp
V2GetEntriesCall ==
    /\ req.gen = "v2" /\ calls < MaxCalls
    /\ calls > 0 => ~res.panic
    /\ res' = GetEntriesV2(req.handle, req.resp)
    /\ calls' = calls + 1
    /\ UNCHANGED <<req, protoVars, newVars, callVars>>

\* clientv3.GetEntries(key) against a store that answers req.resp
V3GetEntriesCall ==
    /\ req.gen = "v3" /\ calls < MaxCalls
    /\ calls > 0 => ~res.panic
    /\ res' = GetEntriesV3(req.handle, req.resp)
    /\ calls' = calls + 1
    /\ UNCHANGED <<req, protoVars, newVars, callVars>>

NextGet == V2GetEntriesCall \/ V3GetEntriesCall

SpecGet == InitGet /\ [][NextGet]_vars

\* a GetEntries call on an initialised client got the store's answer
Answered(g) ==
    calls > 0 /\ req.gen = g /\ req.handle = "live" /\ ~req.resp.err

\* how many of the items of sequence q are v
Count(q, v) == Cardinality({i \in 1..Len(q) : q[i] = v})

\* the values of the keys (file nodes) found at any depth under a node
RECURSIVE FileValues(_)
FileValues(node) ==
    IF ~node.Dir THEN <<node.Value>>
    ELSE LET RECURSIVE Cat(_)
             Cat(i) == IF i > Len(node.Nodes) THEN <<>>
                       ELSE FileValues(node.Nodes[i]) \o Cat(i + 1)
         IN Cat(1)

SameBag(p, q) == \A v \in Values : Count(p, v) = Count(q, v)

\* ------------------------------------------------------------------ C6
\* C6: a v3 read that returns N >= 1 records with a reported count of N
\* gives no error and exactly N entries, the i-th being the value of the
\* i-th record in the store's order.
C6_V3ValuesInOrder ==
    (Answered("v3") /\ Len(req.resp.Kvs) >= 1
        /\ req.resp.Count = Len(req.resp.Kvs))
    => /\ ~res.panic /\ res.err = ErrNone /\ ~res.entries.nil
       /\ Len(res.entries.items) = Len(req.resp.Kvs)
       /\ \A i \in 1..Len(req.resp.Kvs) :
              res.entries.items[i] = req.resp.Kvs[i].Value

\* two records with different values were read and returned
C6_Witness ==
    /\ Answered("v3") /\ Len(req.resp.Kvs) = 2 /\ req.resp.Count = 2
    /\ req.resp.Kvs[1].Value = "y" /\ req.resp.Kvs[2].Value = "x"
    /\ res.entries.items = <<"y", "x">>

\* ------------------------------------------------------------------ C7
\* C7: a v3 read that succeeds with zero records, or with a count that
\* differs from the records returned, gives a nil result and a nil error, on
\* the first call and on every repetition, and the call changes nothing of
\* the client.
C7_V3NoEntries ==
    /\ [](Answered("v3")
            /\ (Len(req.resp.Kvs) = 0 \/ req.resp.Count # Len(req.resp.Kvs))
          => res = Returned(NilSlice, ErrNone, TRUE))
    /\ [][V3GetEntriesCall => req' = req /\ (calls > 0 => res' = res)]_vars

\* a read with one record and a count of two was answered twice with nil
C7_Witness ==
    /\ Answered("v3") /\ calls = 2
    /\ Len(req.resp.Kvs) = 1 /\ req.resp.Count = 2
    /\ res.entries.nil /\ res.err = ErrNone

\* ------------------------------------------------------------------ C8
\* C8: GetEntries returns the values of all keys found, recursively, under
\* the prefix: every key at any depth contributes its value, and every
\* entry is the value of such a key (v2: over the node tree; v3: over the
\* records of the prefix read).
C8_AllKeysRecursively ==
    /\ Answered("v2") /\ req.resp.Node.Dir
       => ~res.panic /\ SameBag(res.entries.items, FileValues(req.resp.Node))
    /\ Answered("v3") /\ req.resp.Count = Len(req.resp.Kvs)
       => ~res.panic
          /\ SameBag(res.entries.items,
                     [i \in 1..Len(req.resp.Kvs) |-> req.resp.Kvs[i].Value])

\* ------------------------------------------------------------------ C9
\* C9: in the v2 client, a node without children and with a non-empty value
\* gives exactly that value; without children and with an empty value, zero
\* entries and no error; otherwise one entry per child, in the store's
\* order, each the child's value.
C9_V2NodeCases ==
    Answered("v2") =>
        LET node == req.resp.Node
            n == Len(node.Nodes)
        IN /\ ~res.panic /\ res.err = ErrNone
           /\ n = 0 /\ node.Value # "" => res.entries.items = <<node.Value>>
           /\ n = 0 /\ node.Value = "" => res.entries.items = <<>>
           /\ n > 0 => /\ Len(res.entries.items) = n
                       /\ \A i \in 1..n : res.entries.items[i] = node.Nodes[i].Value

\* a directory with two children of different values was read
C9_Witness ==
    /\ Answered("v2") /\ Len(req.resp.Node.Nodes) = 2
    /\ req.resp.Node.Nodes[1].Value = "y" /\ req.resp.Node.Nodes[2].Value = "x"
    /\ res.entries.items = <<"y", "x">>

\* ---------------------------------------------------------- New alone
\* the constructors called directly, as the tests do: a typed address list
\* (possibly empty), typed options, and the constructor named by
\* client_version
DirectOptions ==
    {o \in OptionsFields :
        /\ o.kind \in {"absent", "map"}
        /\ \A f \in {o.cert, o.key, o.cacert} : f.kind # "other"
        /\ \A f \in {o.dial_timeout, o.dial_keepalive, o.header_timeout} :
               f \in {Absent, Str("2s")}}

DirectCalls ==
    {[ns |-> "direct",
      block |-> [machines |-> [kind |-> "seq", items |-> m],
                 client_version |-> Str(g), options |-> o],
      others |-> FALSE, reachable |-> r] :
        m \in SeqsUpTo({Str("http://a:2379"), Str("http://b:2379")}, MaxMachines),
        g \in {"v2", "v3"}, o \in DirectOptions, r \in BOOLEAN}

InitNew ==
    /\ ProtoIdle /\ GetIdle
    /\ cfg \in Configs \cup DirectCalls
    /\ newRes = NotCalled
    /\ CallIdle

\* etcd.New(ctx, serviceConfig.ExtraConfig), once
NewCall ==
    /\ ~newRes.called /\ cfg.ns # "direct"
    /\ newRes' = New(cfg)
    /\ UNCHANGED <<cfg, protoVars, getVars, callVars>>

\* NewClient(ctx, machines, options) or NewClientV3(ctx, machines, options),
\* once
ConstructorCall ==
    /\ ~newRes.called /\ cfg.ns = "direct"
    /\ LET machines == StringsOf(cfg.block.machines.items)
           options == parseOptions(cfg.block).options
       IN newRes' = IF cfg.block.client_version.s = "v3"
                    THEN NewClientV3(machines, options, cfg.reachable)
                    ELSE NewClient(machines, options, cfg.reachable)
    /\ UNCHANGED <<cfg, protoVars, getVars, callVars>>

NextNew == NewCall \/ ConstructorCall

SpecNew == InitNew /\ [][NextNew]_vars

\* ----------------------------------------------------------------- C10
\* C10: for any configuration without a block under the namespace key, New
\* returns ErrNoConfig and a nil client and does not try to construct a
\* store client.
C10_NoConfig ==
    newRes.called /\ cfg.ns = "absent" =>
        /\ ~newRes.panic
        /\ newRes.err = ErrNoConfig /\ newRes.client = "nil"
        /\ ~newRes.made /\ ~newRes.dialed

\* New was called on a configuration that holds only other namespaces
C10_Witness ==
    /\ newRes.called /\ cfg.ns = "absent" /\ cfg.others
    /\ newRes.err = ErrNoConfig

\* The scheduler runs every goroutine that can take a step: the watch loop,
\* the consumer, and the etcd client's own goroutine that closes the watch
\* channel.  Nothing obliges the store to change, the context to be
\* cancelled, the stream to fail or the consumer to stop reading.
LiveSpec ==
    /\ Spec
    /\ WF_vars(V2WatchPrefix) /\ WF_vars(V3WatchPrefix)
    /\ WF_vars(SendSentinel) /\ WF_vars(SendSignal)
    /\ WF_vars(V2NextCall) /\ WF_vars(V2NextEvent) /\ WF_vars(V2NextError)
    /\ WF_vars(V3Receive) /\ WF_vars(V3RangeEnd) /\ WF_vars(V3StreamClose)
    /\ WF_vars(ConsumerSeed) /\ WF_vars(ConsumerList)

\* ------------------------------------------------------------- notions
\* the invocation is inside WatchPrefix on an initialised client
Active == wpc \in {"sentinel", "loop", "waiting", "signal"}

\* the invocation is blocked in a send on the signal channel
Sending == wpc \in {"sentinel", "signal"}

\* signals sent or being sent
SignalCount == Len(log) + (IF Sending THEN 1 ELSE 0)

\* change batches taken from the watch stream
BatchesTaken == Cardinality({i \in 1..Len(taken) : taken[i].kind = "batch"})

\* the values under the prefix, in store order
StoreValues == [i \in 1..Cardinality(store) |-> ValueOf(KeySeq(store)[i])]

\* the watch loop waits for the store and nothing is pending for it
WaitingOnStore ==
    \/ gen = "v2" /\ wpc = "waiting" /\ index < regIndex
    \/ gen = "v3" /\ wpc = "loop" /\ wch = <<>> /\ ~wchClosed

\* neither the watch loop nor the consumer can take a step until the store
\* changes
Quiescent == WaitingOnStore /\ cpc = "recv"

\* ------------------------------------------------------------------ C1
\* C1: in every WatchPrefix invocation on an initialised client (v2 and v3)
\* the first value sent is the sentinel; it is sent after the watch is
\* established and before any signal derived from a store notification, and
\* the invocation offers it whether or not the store ever changes (nothing
\* is taken from the watch stream, and the loop is not entered, before it
\* has been handed over).
C1_SentinelFirst ==
    /\ log # <<>> => log[1] = "sentinel" /\ established
    /\ \A i \in 2..Len(log) : log[i] # "sentinel"
    /\ taken # <<>> => log # <<>>
    /\ handle = "live" /\ wpc \notin {"idle", "sentinel"} => log # <<>>
    /\ handle = "live" /\ wpc = "sentinel" => log = <<>> /\ cur = "sentinel"

\* the sentinel has been received although the store never changed
C1_Witness ==
    /\ log = <<"sentinel">> /\ index = 0 /\ taken = <<>>
    /\ WaitingOnStore

\* ------------------------------------------------------------------ C2
\* C2: consumers never miss an update.  With a consumer that calls
\* GetEntries once per signal, the context not cancelled and the stream
\* without error: whenever the watch loop and the consumer have both come to
\* rest (so that, mutations having stopped, nothing further will happen),
\* the consumer's last GetEntries result is the store's contents under the
\* prefix.
C2_NoMissedUpdate ==
    (/\ handle = "live" /\ ~ctxCancelled /\ ~streamErr /\ receiverActive
     /\ Quiescent)
    => /\ view.err = ErrNone
       /\ view.entries.items = StoreValues

\* ------------------------------------------------------------------ C3
\* C3: after the sentinel, exactly one signal per change batch: at every
\* point of an invocation the signals sent or being sent number 1 plus the
\* change batches taken from the watch stream, and no signal is sent for
\* anything but a change batch.
C3_OneSignalPerBatch ==
    /\ handle = "live" /\ wpc # "idle" => SignalCount = 1 + BatchesTaken
    /\ \A i \in 2..Len(log) : log[i] = "batch"
    /\ wpc = "signal" => cur = "batch"

LoopStep ==
    \/ V2NextCall \/ V2NextEvent \/ V2NextError
    \/ V3Receive \/ V3RangeEnd \/ V3StreamClose

C5_NilClient ==
    handle = "nil" =>
        /\ ~Crashed
        /\ wpc \in {"idle", "done"} /\ log = <<>>
        /\ cpc # "seed" => view = Returned(NilSlice, ErrNilClient, FALSE)

\* ----------------------------------------------------------------- C11
IsString(x) == x.kind = "string"

\* the strings found in the 'machines' field, by position
AddressStrings(m) ==
    IF m.kind # "seq" THEN <<>>
    ELSE LET q == SelectSeq(m.items, IsString)
         IN [i \in 1..Len(q) |-> q[i].s]

\* a constructor was entered
ConstructorReached ==
    /\ newRes.called /\ ~newRes.panic
    /\ newRes.err \notin {ErrNoConfig, ErrBadConfig, ErrNoMachines}

\* C11: for a block whose 'machines' is absent, not a sequence, empty, or
\* holds no string, New returns ErrNoMachines and a nil client, whatever the
\* other fields hold; when the sequence holds strings, New does not return
\* ErrNoMachines and the constructor gets exactly the strings, in their
\* original order, the other values skipped.
C11_NoMachines ==
    newRes.called /\ cfg.ns = "map" =>
        LET strs == AddressStrings(cfg.block.machines)
        IN /\ strs = <<>> =>
                /\ ~newRes.panic
                /\ newRes.err = ErrNoMachines /\ newRes.client = "nil"
                /\ ~newRes.made /\ ~newRes.dialed
           /\ strs # <<>> =>
                /\ newRes.err # ErrNoMachines
                /\ ConstructorReached => newRes.machines = strs

\* a list mixing a non-string and a string gave a client for the string
C11_Witness ==
    /\ newRes.called /\ cfg.ns = "map"
    /\ cfg.block.machines.kind = "seq"
    /\ cfg.block.machines.items = <<NonStr, Str("http://b:2379")>>
    /\ newRes.machines = <<"http://b:2379">>
    /\ newRes.client # "nil"

\* ----------------------------------------------------------------- C12
\* the 'options' field and its string fields have the types parseOptions
\* asserts
OptionsWellTyped(o) ==
    /\ o.kind \in {"absent", "map"}
    /\ \A f \in {o.cert, o.key, o.cacert} : f.kind # "other"

\* C12: the selector is "v3" only when client_version is exactly "v3"; for
\* every other value, of any type, and when the field is absent, it is "v2"
\* without error, and New dispatches to the matching constructor (with a
\* valid address list and well-typed options: New does not crash, a client
\* returned is of the selected generation, and only the v3 constructor
\* dials).
C12_VersionSelector ==
    (/\ newRes.called /\ cfg.ns = "map"
     /\ AddressStrings(cfg.block.machines) # <<>>
     /\ OptionsWellTyped(cfg.block.options))
    => LET selected == IF cfg.block.client_version = Str("v3")
                       THEN "v3" ELSE "v2"
       IN /\ ~newRes.panic
          /\ newRes.err \notin {ErrNoConfig, ErrBadConfig, ErrNoMachines}
          /\ newRes.client # "nil" => newRes.client = selected
          /\ newRes.made => (newRes.dialed <=> selected = "v3")

\* ----------------------------------------------------------------- C13
\* what one timeout field resolves to, by itself: the duration it spells when
\* it is a string spelling a duration other than zero, else the default
Resolved(f) ==
    IF f = Str("2s") THEN 2
    ELSE IF f = Str("5s") THEN 5
    ELSE defaultTTL

\* C13: each of the three timeouts resolves independently of the other two,
\* in both generations: absent or zero gives the 3-second default, a value
\* that is not a parsable duration (a non-string included) gives the default
\* without any error, a parsable duration other than zero is used as given.
C13_TimeoutsResolve ==
    (/\ newRes.called /\ cfg.ns \in {"map", "direct"}
     /\ AddressStrings(cfg.block.machines) # <<>>
     /\ cfg.block.client_version.kind # "other"
     /\ OptionsWellTyped(cfg.block.options))
    => LET o == cfg.block.options
       IN /\ ConstructorReached
          /\ newRes.err \notin {ErrDuration}
          /\ newRes.options.DialTimeout = Resolved(o.dial_timeout)
          /\ newRes.options.DialKeepAlive = Resolved(o.dial_keepalive)
          /\ newRes.options.HeaderTimeoutPerRequest = Resolved(o.header_timeout)

\* a v3 client built from three different kinds of timeout fields: one
\* parsable, one unparsable, one not a string
C13_Witness ==
    /\ newRes.called /\ cfg.ns = "map"
    /\ newRes.client = "v3" /\ newRes.err = ErrNone
    /\ cfg.block.options.dial_timeout = Str("2s")
    /\ cfg.block.options.dial_keepalive = Str("bad")
    /\ cfg.block.options.header_timeout = NonStr
    /\ newRes.options.DialTimeout = 2
    /\ newRes.options.DialKeepAlive = defaultTTL
    /\ newRes.options.HeaderTimeoutPerRequest = defaultTTL

\* ----------------------------------------------------------------- C14
\* the certificate and the key the constructor is given
GivenCert == StringField(cfg.block.options.cert, "")

GivenKey == StringField(cfg.block.options.key, "")

GivenCACert == StringField(cfg.block.options.cacert, "")

\* C14: when a certificate and a key are both configured and the pair cannot
\* be loaded, construction returns an error and a nil client, in both
\* generations, before the store client is built or any connection is
\* attempted; and no construction fails because of the CA bundle: with a
\* pair that loads, or without a pair, the outcome is the one the addresses
\* and the store decide, whether or not the CA file can be read.
C14_KeyPairError ==
    ConstructorReached /\ cfg.ns \in {"map", "direct"} =>
        LET pair == GivenCert # "" /\ GivenKey # ""
            gen3 == cfg.block.client_version = Str("v3")
            n == Len(AddressStrings(cfg.block.machines))
        IN /\ pair /\ ~KeyPairLoads(GivenCert, GivenKey) =>
                /\ newRes.err = ErrKeyPair /\ newRes.client = "nil"
                /\ ~newRes.made /\ ~newRes.dialed
           /\ ~(pair /\ ~KeyPairLoads(GivenCert, GivenKey)) =>
                /\ newRes.err # ErrKeyPair
                /\ newRes.made
                /\ newRes.err = ErrNone <=>
                       (n > 0 /\ (gen3 => cfg.reachable))
                /\ newRes.rootCAs <=> (pair /\ FileReads(GivenCACert))

\* the v3 constructor, given a pair of files that do not exist, failed
\* although the store could be reached
C14_Witness ==
    /\ newRes.called /\ cfg.ns = "map" /\ cfg.reachable
    /\ cfg.block.client_version = Str("v3")
    /\ GivenCert = "blank.crt" /\ GivenKey = "blank.key"
    /\ newRes.err = ErrKeyPair /\ newRes.client = "nil" /\ ~newRes.dialed

\* ----------------------------------------------------------------- C15
\* C15: construction with an empty address set, or with a store that cannot
\* be reached, fails with a non-nil error; and exactly one of client and
\* error is nil on every return of a constructor.
C15_ConstructionFails ==
    ConstructorReached /\ cfg.ns \in {"map", "direct"} =>
        /\ (Len(AddressStrings(cfg.block.machines)) = 0 \/ ~cfg.reachable)
               => newRes.err # ErrNone
        /\ newRes.err # ErrNone <=> newRes.client = "nil"

\* ----------------------------------------------------------------- C19
\* C19: New is total over the values found under the namespace key: it
\* returns a client or an error and never crashes the calling process,
\* whatever the types of the block and of its fields; a value that is not a
\* key-value map gives ErrBadConfig.
C19_NewIsTotal ==
    newRes.called /\ cfg.ns # "direct" =>
        /\ ~newRes.panic
        /\ newRes.err # ErrNone <=> newRes.client = "nil"
        /\ cfg.ns = "other" => newRes.err = ErrBadConfig

\* ----------------------------------------------------------------- C20
\* C20: New validates before it connects, in a fixed order, and the first
\* failing check decides the error: no block gives ErrNoConfig; a block that
\* is not a map gives ErrBadConfig; a map without a usable address list
\* gives ErrNoMachines whatever the selector and the credentials are; only
\* then are the selector and the credentials looked at, a key pair that
\* cannot be loaded giving its error; and the store client is built, and the
\* network used, only when all of these checks have passed.
C20_ValidationOrder ==
    newRes.called /\ cfg.ns # "direct" =>
        LET addresses == AddressStrings(cfg.block.machines)
            badPair == /\ GivenCert # "" /\ GivenKey # ""
                       /\ ~KeyPairLoads(GivenCert, GivenKey)
        IN /\ cfg.ns = "absent" => newRes.err = ErrNoConfig
           /\ cfg.ns = "other" => newRes.err = ErrBadConfig
           /\ cfg.ns = "map" /\ addresses = <<>> =>
                newRes.err = ErrNoMachines
           /\ cfg.ns = "map" /\ addresses # <<>> /\ ~newRes.panic /\ badPair =>
                newRes.err = ErrKeyPair
           /\ newRes.err \in {ErrNoConfig, ErrBadConfig, ErrNoMachines,
                              ErrKeyPair} =>
                newRes.client = "nil" /\ ~newRes.made /\ ~newRes.dialed
           /\ newRes.made \/ newRes.dialed =>
                /\ cfg.ns = "map" /\ addresses # <<>> /\ ~badPair
                /\ OptionsWellTyped(cfg.block.options)

\* an empty address list together with a key pair that cannot be loaded
\* gave ErrNoMachines
C20_Witness ==
    /\ newRes.called /\ cfg.ns = "map"
    /\ cfg.block.machines.kind = "seq" /\ cfg.block.machines.items = <<>>
    /\ GivenCert = "blank.crt" /\ GivenKey = "blank.key"
    /\ newRes.err = ErrNoMachines /\ ~newRes.made

\* ----------------------------------------------------------------- C16
\* C16: when the watch stream reports an error, WatchPrefix returns without
\* sending a signal for that error and sends nothing afterwards, in both
\* generations: no signal sent or being sent is derived from the error, and
\* an invocation that returned after the error has sent the sentinel and
\* one signal per change batch, nothing more.
C16_NoSignalOnError ==
    streamErr /\ handle = "live" =>
        /\ \A i \in 1..Len(log) : log[i] # "err"
        /\ Sending => cur # "err"
        /\ wpc = "done" => Len(log) = 1 + BatchesTaken

\* ----------------------------------------------------------------- C17
\* C17: the send is a blocking handoff that stalls the invocation without
\* losing anything: every response taken from the watch stream is handed
\* over as one signal before the next is taken (so at most one signal is
\* pending and nothing is taken while one is); the change batches taken are,
\* in order and one by one, the changes the store made since the watch was
\* established, none dropped and none merged; and once the invocation and
\* the consumer are at rest every such change has been taken.
C17_StallLosesNothing ==
    handle = "live" /\ established =>
        /\ SignalCount = 1 + Len(taken)
        /\ \A i \in 1..Len(taken) :
               taken[i].kind = "batch" => taken[i].rev = estIndex + i
        /\ Quiescent /\ receiverActive /\ ~ctxCancelled /\ ~streamErr
               => BatchesTaken = index - estIndex

\* ------------------------------------------------ GetEntries in time
\* A client with an active WatchPrefix that has handed over its sentinel,
\* and callers about to call GetEntries against a store that may answer,
\* answer in part, or never answer.
InitCall ==
    /\ gen \in {"v2", "v3"}
    /\ handle = "live"
    /\ ctxCancelled = FALSE
    /\ store = {} /\ index = 0
    /\ wpc = "loop" /\ cur = "none" /\ established = TRUE /\ estIndex = 0
    /\ waitIndex = 0 /\ regIndex = 0
    /\ wch = <<>> /\ wchClosed = FALSE /\ streamErr = FALSE
    /\ taken = <<>> /\ log = <<"sentinel">>
    /\ cpc = "recv" /\ receiverActive = TRUE
    /\ view = GetEntries(gen, "live", StoreResp(gen, {}))
    /\ GetIdle
    /\ NewIdle
    /\ CallIdle

\* GetEntries up to the request.  v3: timeoutCtx, cancel :=
\* context.WithTimeout(c.ctx, c.timeout), and the request runs under
\* timeoutCtx.  v2: the request is given c.ctx itself; the store client was
\* built with HeaderTimeoutPerRequest, which it applies to the wait for the
\* response headers.
GetEntriesStart(i) ==
    /\ call[i].pc = "idle"
    /\ call' = [call EXCEPT ![i] =
                  [pc |-> "sent",
                   ctx |-> IF gen = "v3" THEN "own" ELSE "root",
                   timer |-> "armed", res |-> "none"]]
    /\ UNCHANGED <<protoVars, getVars, newVars>>

\* the store answers.  v3: Get returns, cancel() releases the sub-context.
\* v2: the headers have arrived, the header timeout is over, and the body is
\* read under the context the request was given.
StoreAnswers(i) ==
    /\ call[i].pc = "sent"
    /\ call' = [call EXCEPT ![i] =
                  IF gen = "v3"
                  THEN [@ EXCEPT !.pc = "returned", !.timer = "released",
                                 !.res = "ok"]
                  ELSE [@ EXCEPT !.pc = "body", !.timer = "released"]]
    /\ UNCHANGED <<protoVars, getVars, newVars>>

\* v2: the body of the response has been read
StoreBody(i) ==
    /\ gen = "v2" /\ call[i].pc = "body"
    /\ call' = [call EXCEPT ![i] = [@ EXCEPT !.pc = "returned", !.res = "ok"]]
    /\ UNCHANGED <<protoVars, getVars, newVars>>

\* the deadline in force for this call passes: the call returns an error
GetTimeout(i) ==
    /\ call[i].pc \in {"sent", "body"} /\ call[i].timer = "armed"
    /\ call' = [call EXCEPT ![i] =
                  [@ EXCEPT !.pc = "returned", !.timer = "fired",
                            !.res = "deadline"]]
    /\ UNCHANGED <<protoVars, getVars, newVars>>

\* the client's context is cancelled under a call in flight: the call
\* returns an error
GetCancelled(i) ==
    /\ call[i].pc \in {"sent", "body"} /\ ctxCancelled
    /\ call' = [call EXCEPT ![i] =
                  [@ EXCEPT !.pc = "returned", !.res = "cancelled",
                            !.timer = IF @ = "armed" THEN "released" ELSE @]]
    /\ UNCHANGED <<protoVars, getVars, newVars>>

NextCall ==
    \/ \E i \in Callers :
          \/ GetEntriesStart(i)
          \/ StoreAnswers(i)
          \/ StoreBody(i)
          \/ GetTimeout(i)
          \/ GetCancelled(i)
    \/ Cancel
    \/ V2NextCall
    \/ V2NextError
    \/ V3StreamClose
    \/ V3RangeEnd

SpecCall == InitCall /\ [][NextCall]_vars

\* a call is between its request and its return
InFlight(i) == call[i].pc \in {"sent", "body"}

\* ----------------------------------------------------------------- C18
\* C18: every GetEntries call is self-bounding, in both generations: as long
\* as it is in flight a deadline set from the per-request timeout is in
\* force for it, so that it can always be ended by that deadline whatever
\* the store does; the deadline is released when the call returns; and a
\* call's deadline ends that call alone: as long as the client's context is
\* not cancelled no call is cancelled and the active WatchPrefix goes on.
C18_SelfBounding ==
    /\ \A i \in Callers :
          /\ InFlight(i) => call[i].timer = "armed" /\ ENABLED GetTimeout(i)
          /\ call[i].pc = "returned" => call[i].timer # "armed"
          /\ ~ctxCancelled => call[i].res # "cancelled"
    /\ ~ctxCancelled => wpc # "done"

=============================================================================
